---- MODULE Spec2Model ----
(***************************************************************************)
(* Model of tools/signpost_summary.py: the streaming pass of main() over   *)
(* an xctrace os-signpost XML export, the per-row extraction and filter,   *)
(* the begin/end interval correlator, the percentile of _pct, the rows and *)
(* counters of the report, and the exit code.                              *)
(*                                                                         *)
(* Python values are modelled as follows.  A str is a sequence of          *)
(* one-character strings.  A value that may be None is a set: {} is None   *)
(* and {v} is the value v.  A dict is a function whose DOMAIN is the set   *)
(* of its keys.  Element tags are only ever compared for equality and are  *)
(* plain strings.                                                          *)
(***************************************************************************)
EXTENDS Integers, Sequences, FiniteSets, TLC

----------------------------------------------------------------------------
(* Python values *)

None == {}

Some(v) == {v}

Val(o) == CHOOSE v \in o : TRUE

\* truthiness of an Optional[str]: None and "" are falsy
Truthy(o) == o # None /\ Val(o) # <<>>

\* Python `a or b`
Or(a, b) == IF Truthy(a) THEN a ELSE b

EmptyDict == [k \in {} |-> None]

\* d.get(k)
DictGet(d, k) == IF k \in DOMAIN d THEN Some(d[k]) ELSE None

\* d[k] = v
DictPut(d, k, v) == [x \in (DOMAIN d) \cup {k} |-> IF x = k THEN v ELSE d[x]]

\* pop that reads the entry and leaves it in the dict
DictDel_kept(d, k) == d

\* d after d.pop(k, None)
DictDel(d, k) == [x \in (DOMAIN d) \ {k} |-> d[x]]

----------------------------------------------------------------------------
(* str operations used by the program *)

WhiteSpace == {" ", "\t", "\n", "\r"}

Digits == {"0", "1", "2", "3", "4", "5", "6", "7", "8", "9"}

DigitVal(c) ==
    CASE c = "0" -> 0 [] c = "1" -> 1 [] c = "2" -> 2 [] c = "3" -> 3
      [] c = "4" -> 4 [] c = "5" -> 5 [] c = "6" -> 6 [] c = "7" -> 7
      [] c = "8" -> 8 [] c = "9" -> 9

\* str.lower() on one character
LowerChar(c) ==
    CASE c = "A" -> "a" [] c = "B" -> "b" [] c = "C" -> "c" [] c = "D" -> "d"
      [] c = "E" -> "e" [] c = "F" -> "f" [] c = "G" -> "g" [] c = "H" -> "h"
      [] c = "I" -> "i" [] c = "J" -> "j" [] c = "K" -> "k" [] c = "L" -> "l"
      [] c = "M" -> "m" [] c = "N" -> "n" [] c = "O" -> "o" [] c = "P" -> "p"
      [] c = "Q" -> "q" [] c = "R" -> "r" [] c = "S" -> "s" [] c = "T" -> "t"
      [] c = "U" -> "u" [] c = "V" -> "v" [] c = "W" -> "w" [] c = "X" -> "x"
      [] c = "Y" -> "y" [] c = "Z" -> "z" [] OTHER -> c

\* str.lower()
Lower(s) == [i \in 1..Len(s) |-> LowerChar(s[i])]

\* `sub in s`
Contains(s, sub) ==
    \E i \in 0..(Len(s) - Len(sub)) :
        \A j \in 1..Len(sub) : s[i + j] = sub[j]

RECURSIVE LStrip(_)
LStrip(s) ==
    IF s # <<>> /\ Head(s) \in WhiteSpace THEN LStrip(Tail(s)) ELSE s

RECURSIVE RStrip(_)
RStrip(s) ==
    IF s # <<>> /\ s[Len(s)] \in WhiteSpace
    THEN RStrip(SubSeq(s, 1, Len(s) - 1))
    ELSE s

\* str.strip()
Strip(s) == RStrip(LStrip(s))

\* (elem.text or "").strip()
TextOf(text) == Strip(IF Truthy(text) THEN Val(text) ELSE <<>>)

RECURSIVE DigitsValue(_, _)
DigitsValue(s, acc) ==
    IF s = <<>> THEN acc
    ELSE IF Head(s) = "_" THEN DigitsValue(Tail(s), acc)
    ELSE DigitsValue(Tail(s), 10 * acc + DigitVal(Head(s)))

\* the digit part of a base-10 literal: digits, single underscores between
IsDigitString(s) ==
    /\ s # <<>>
    /\ \A i \in 1..Len(s) : s[i] \in Digits \cup {"_"}
    /\ s[1] \in Digits
    /\ s[Len(s)] \in Digits
    /\ \A i \in 1..(Len(s) - 1) : ~(s[i] = "_" /\ s[i + 1] = "_")

\* int(t) for an already stripped t; None stands for ValueError
ParseInt(t) ==
    LET signed == t # <<>> /\ t[1] \in {"+", "-"}
        body   == IF signed THEN Tail(t) ELSE t
    IN  IF ~IsDigitString(body) THEN None
        ELSE IF signed /\ t[1] = "-" THEN Some(0 - DigitsValue(body, 0))
        ELSE Some(DigitsValue(body, 0))

----------------------------------------------------------------------------
(* XML elements as the pass sees them *)

\* an ET.Element: tag, the three attributes the pass reads, text, children
Node(tag, id, ref, fmt, text, children) ==
    [tag |-> tag, id |-> id, ref |-> ref, fmt |-> fmt, text |-> text,
     children |-> children]

\* what elem.clear() leaves of an element: the tag only
Clear(e) == Node(e.tag, None, None, None, None, <<>>)

\* the reference is looked up before the inline label
resolve_fmt_ref(e, by_id) ==
    IF Truthy(e.ref) THEN DictGet(by_id, Val(e.ref))
    ELSE IF Truthy(e.fmt) THEN e.fmt
    ELSE IF TextOf(e.text) # <<>> THEN Some(TextOf(e.text))
    ELSE None

\* a reference that is not in the table falls back to the text
resolve_fmt_text(e, by_id) ==
    IF Truthy(e.fmt) THEN e.fmt
    ELSE IF Truthy(e.ref) /\ DictGet(by_id, Val(e.ref)) # None
    THEN DictGet(by_id, Val(e.ref))
    ELSE IF TextOf(e.text) # <<>> THEN Some(TextOf(e.text))
    ELSE None

resolve_fmt(e, by_id) ==
    IF Truthy(e.fmt) THEN e.fmt
    ELSE IF Truthy(e.ref) THEN DictGet(by_id, Val(e.ref))
    ELSE IF TextOf(e.text) # <<>> THEN Some(TextOf(e.text))
    ELSE None

\* the id is looked at before the reference
resolve_id_id(e) == Or(e.id, e.ref)

resolve_id(e) == Or(e.ref, e.id)

----------------------------------------------------------------------------
(* State of main() *)

VARIABLES
    args,               \* parsed command line: xml, subsystem, category, top
    event_type_fmt,     \* id -> fmt tables
    signpost_name_fmt,
    subsystem_fmt,
    category_fmt,
    thread_fmt,
    open_intervals,     \* (thread_id, signpost_id) -> (time_ns, name, time_fmt)
    durations_by_name,  \* name -> list of dt
    unmatched_ends,
    matched,
    time_ns,            \* the locals of the row being parsed
    time_fmt,
    event_kind,
    name,
    subsystem,
    category,
    thread_id,
    signpost_id,
    branch,             \* where the handling of the last node ended
    elem,               \* the node the iterator yielded last, as yielded
    report,             \* what lines 224-235 print: the counters and the rows
    exit_code,          \* what main returned, None while it runs
    stderr,             \* the lines printed on sys.stderr
    call,               \* a call of _pct on its own: values, p and the result
    doc,                \* the XML document read by the iterator
    pos,                \* <<i, j>>: item i of doc, j of its children delivered
    tree,               \* children of the row being built, as they are now
    pc                  \* "start" before line 76, "loop" while iterating,
                        \* "done" after the report, "exit" after line 80

tables == <<event_type_fmt, signpost_name_fmt, subsystem_fmt, category_fmt,
            thread_fmt>>

counters == <<open_intervals, durations_by_name, unmatched_ends, matched>>

locals == <<time_ns, time_fmt, event_kind, name, subsystem, category,
            thread_id, signpost_id>>

stream == <<doc, pos, tree>>

output == <<exit_code, stderr>>

vars == <<args, tables, counters, locals, branch, elem, report, output, call,
          stream, pc>>

----------------------------------------------------------------------------
(* The loop body, lines 82-204 *)

\* one table after the node `elem` went through lines 86-110
Registered_first(table, tag, e) ==
    IF e.tag = tag /\ Truthy(e.id) /\ Truthy(e.fmt)
          /\ Val(e.id) \notin DOMAIN table
    THEN DictPut(table, Val(e.id), Val(e.fmt))
    ELSE table

Registered(table, tag, e) ==
    IF e.tag = tag /\ Truthy(e.id) /\ Truthy(e.fmt)
    THEN DictPut(table, Val(e.id), Val(e.fmt))
    ELSE table

\* lines 85-110: capture memoized fmt strings
Register(e) ==
    /\ event_type_fmt' = Registered(event_type_fmt, "event-type", e)
    /\ signpost_name_fmt' = Registered(signpost_name_fmt, "signpost-name", e)
    /\ subsystem_fmt' = Registered(subsystem_fmt, "subsystem", e)
    /\ category_fmt' = Registered(category_fmt, "category", e)
    /\ thread_fmt' = Registered(thread_fmt, "thread", e)

\* lines 117-124
NoLocals ==
    [time_ns |-> None, time_fmt |-> None, event_kind |-> None, name |-> None,
     subsystem |-> None, category |-> None, thread_id |-> None,
     signpost_id |-> None]

\* the first parsed timestamp is kept
TimeAfter_first(L, child) ==
    IF L.time_ns # None THEN L.time_ns
    ELSE IF TextOf(child.text) # <<>> THEN ParseInt(TextOf(child.text))
    ELSE L.time_ns

\* the timestamp after a temporal child, lines 130-135
TimeAfter(L, child) ==
    IF TextOf(child.text) # <<>> THEN ParseInt(TextOf(child.text))
    ELSE L.time_ns

\* a resolved label replaces the local only when it is non-empty
Resolved(old, child, by_id) ==
    IF Truthy(resolve_fmt(child, by_id)) THEN resolve_fmt(child, by_id) ELSE old

\* line 163
SignpostIdOf(child) ==
    Or(Or(child.fmt, Some(TextOf(child.text))), child.ref)

\* one iteration of the loop over the children of a row, lines 127-163
ExtractChild(L, child) ==
    IF child.tag \in {"event-time", "sample-time"}
    THEN [L EXCEPT !.time_ns = TimeAfter(L, child),
                   !.time_fmt = Or(child.fmt, L.time_fmt)]
    ELSE IF child.tag = "event-type"
    THEN [L EXCEPT !.event_kind = Resolved(L.event_kind, child, event_type_fmt)]
    ELSE IF child.tag = "signpost-name"
    THEN [L EXCEPT !.name = Resolved(L.name, child, signpost_name_fmt)]
    ELSE IF child.tag = "subsystem"
    THEN [L EXCEPT !.subsystem = Resolved(L.subsystem, child, subsystem_fmt)]
    ELSE IF child.tag = "category"
    THEN [L EXCEPT !.category = Resolved(L.category, child, category_fmt)]
    ELSE IF child.tag = "thread"
    THEN [L EXCEPT !.thread_id = Or(resolve_id(child), L.thread_id)]
    ELSE IF child.tag = "os-signpost-identifier"
    THEN [L EXCEPT !.signpost_id = SignpostIdOf(child)]
    ELSE L

RECURSIVE ExtractFrom(_, _)
ExtractFrom(L, children) ==
    IF children = <<>> THEN L
    ELSE ExtractFrom(ExtractChild(L, Head(children)), Tail(children))

\* lines 116-163: parse one signpost row
Extract(children) == ExtractFrom(NoLocals, children)

BEGIN == <<"b", "e", "g", "i", "n">>

END == <<"e", "n", "d">>

\* line 166
FilterMatches(L) ==
    L.subsystem = Some(args.subsystem) /\ L.category = Some(args.category)

\* line 170
HasRequired(L) ==
    /\ L.time_ns # None
    /\ Truthy(L.event_kind)
    /\ Truthy(L.name)
    /\ Truthy(L.thread_id)
    /\ Truthy(L.signpost_id)

\* the substring test without lower()
Classify_exact(kind) == <<Contains(kind, BEGIN), Contains(kind, END)>>

\* lines 175-176: <<is_begin, is_end>>
Classify(kind) ==
    <<Contains(Lower(kind), BEGIN), Contains(Lower(kind), END)>>

\* attribution by the end record's name
NameToUse_end(start_name, end_name) == end_name

\* line 193-197
NameToUse(start_name, end_name) ==
    IF start_name # end_name THEN start_name ELSE end_name

\* the sample is not recorded
AppendSample_lost(d, n, dt) == d

\* line 200: durations_by_name[n].append(dt) on a defaultdict(list)
AppendSample(d, n, dt) ==
    DictPut(d, n, Append(IF n \in DOMAIN d THEN d[n] ELSE <<>>, dt))

\* the end arm without the dt >= 0 test of line 199
CloseInterval_signed(S, key, t, n) ==
    IF key \notin DOMAIN S.open_intervals
    THEN [S EXCEPT !.unmatched_ends = @ + 1, !.branch = "unmatched_end"]
    ELSE [S EXCEPT !.open_intervals = DictDel(@, key),
                   !.durations_by_name =
                       AppendSample(@, NameToUse(S.open_intervals[key][2], n),
                                    t - S.open_intervals[key][1]),
                   !.matched = @ + 1,
                   !.branch = "matched_end"]

\* the end arm that does not count an end without begin
CloseInterval_silent(S, key, t, n) ==
    IF key \notin DOMAIN S.open_intervals
    THEN [S EXCEPT !.branch = "unmatched_end"]
    ELSE IF t - S.open_intervals[key][1] >= 0
    THEN [S EXCEPT !.open_intervals = DictDel(@, key),
                   !.durations_by_name =
                       AppendSample(@, NameToUse(S.open_intervals[key][2], n),
                                    t - S.open_intervals[key][1]),
                   !.matched = @ + 1,
                   !.branch = "matched_end"]
    ELSE [S EXCEPT !.open_intervals = DictDel(@, key),
                   !.branch = "negative_end"]

\* lines 188-201: an end event for `key` at time t carrying name n
CloseInterval(S, key, t, n) ==
    IF key \notin DOMAIN S.open_intervals
    THEN [S EXCEPT !.unmatched_ends = @ + 1, !.branch = "unmatched_end"]
    ELSE LET start == S.open_intervals[key]
             dt == t - start[1]
         IN  IF dt >= 0
             THEN [S EXCEPT !.open_intervals = DictDel(@, key),
                            !.durations_by_name =
                                AppendSample(@, NameToUse(start[2], n), dt),
                            !.matched = @ + 1,
                            !.branch = "matched_end"]
             ELSE [S EXCEPT !.open_intervals = DictDel(@, key),
                            !.branch = "negative_end"]

\* a key made of the thread alone
KeyOf_thread(L) == <<Val(L.thread_id), Val(L.thread_id)>>

\* line 183
KeyOf(L) == <<Val(L.thread_id), Val(L.signpost_id)>>

\* a begin that keeps the entry of a key that is already open
Opened_first(open, key, L) ==
    IF key \in DOMAIN open THEN open
    ELSE DictPut(open, key, <<Val(L.time_ns), Val(L.name), L.time_fmt>>)

\* line 186: open_intervals[key] = (time_ns, name, time_fmt)
Opened(open, key, L) ==
    DictPut(open, key, <<Val(L.time_ns), Val(L.name), L.time_fmt>>)

\* a point event is counted as an end without a begin
Correlate_counted(S, L) ==
    IF ~FilterMatches(L) THEN [S EXCEPT !.branch = "drop_filter"]
    ELSE IF ~HasRequired(L) THEN [S EXCEPT !.branch = "drop_missing"]
    ELSE LET is_begin == Classify(Val(L.event_kind))[1]
             is_end == Classify(Val(L.event_kind))[2]
         IN  IF ~(is_begin \/ is_end)
             THEN [S EXCEPT !.unmatched_ends = @ + 1, !.branch = "drop_point"]
             ELSE IF is_begin /\ ~is_end
             THEN [S EXCEPT !.open_intervals = Opened(@, KeyOf(L), L),
                            !.branch = "begin"]
             ELSE IF is_end /\ ~is_begin
             THEN CloseInterval(S, KeyOf(L), Val(L.time_ns), Val(L.name))
             ELSE [S EXCEPT !.branch = "drop_both"]

\* lines 165-204: filter, classify and correlate the extracted row
Correlate(S, L) ==
    IF ~FilterMatches(L) THEN [S EXCEPT !.branch = "drop_filter"]
    ELSE IF ~HasRequired(L) THEN [S EXCEPT !.branch = "drop_missing"]
    ELSE LET is_begin == Classify(Val(L.event_kind))[1]
             is_end == Classify(Val(L.event_kind))[2]
         IN  IF ~(is_begin \/ is_end) THEN [S EXCEPT !.branch = "drop_point"]
             ELSE IF is_begin /\ ~is_end
             THEN [S EXCEPT !.open_intervals = Opened(@, KeyOf(L), L),
                            !.branch = "begin"]
             ELSE IF is_end /\ ~is_begin
             THEN CloseInterval(S, KeyOf(L), Val(L.time_ns), Val(L.name))
             ELSE [S EXCEPT !.branch = "drop_both"]

\* lines 116-204 on a list of rows, one after the other, from the state S
RECURSIVE RunOver(_, _)
RunOver(S, rows) ==
    IF rows = <<>> THEN S
    ELSE RunOver(Correlate(S, Extract(Head(rows).children)), Tail(rows))

\* the correlator state the loop body works on
Current ==
    [open_intervals |-> open_intervals, durations_by_name |-> durations_by_name,
     unmatched_ends |-> unmatched_ends, matched |-> matched, branch |-> branch]

SetLocals(L) ==
    /\ time_ns' = L.time_ns
    /\ time_fmt' = L.time_fmt
    /\ event_kind' = L.event_kind
    /\ name' = L.name
    /\ subsystem' = L.subsystem
    /\ category' = L.category
    /\ thread_id' = L.thread_id
    /\ signpost_id' = L.signpost_id

SetCounters(S) ==
    /\ open_intervals' = S.open_intervals
    /\ durations_by_name' = S.durations_by_name
    /\ unmatched_ends' = S.unmatched_ends
    /\ matched' = S.matched
    /\ branch' = S.branch

\* lines 82-114 for a node that is not a row: register, release, continue
HandleNode(e) ==
    /\ pc = "loop"
    /\ e.tag # "row"
    /\ elem' = e
    /\ Register(e)
    /\ branch' = "not_row"
    /\ UNCHANGED <<args, counters, locals, report, output, call, pc>>

\* lines 82-204 for a row
HandleRow(e) ==
    /\ pc = "loop"
    /\ e.tag = "row"
    /\ elem' = e
    /\ Register(e)
    /\ LET L == Extract(e.children)
       IN  SetLocals(L) /\ SetCounters(Correlate(Current, L))
    /\ UNCHANGED <<args, report, output, call, pc>>

\* a flag instead of the count
Remaining_flag(open) == IF DOMAIN open = {} THEN 0 ELSE 1

\* line 225: len(open_intervals)
Remaining(open) == Cardinality(DOMAIN open)

\* a float that is a ratio of two integers is kept exact, as
\* <<numerator, denominator>>; float("nan") has denominator 0
NaN == <<0, 0>>

\* line 15, line 20: float(v)
Float(v) == <<v, 1>>

\* the two percentiles of lines 217-218
P50 == <<1, 2>>

P95 == <<19, 20>>

RECURSIVE InsertAsc(_, _)
InsertAsc(v, s) ==
    IF s = <<>> THEN <<v>>
    ELSE IF v < Head(s) THEN <<v>> \o s
    ELSE <<Head(s)>> \o InsertAsc(v, Tail(s))

\* line 13: sorted(values)
RECURSIVE sorted(_)
sorted(values) ==
    IF values = <<>> THEN <<>>
    ELSE InsertAsc(values[Len(values)],
                   sorted(SubSeq(values, 1, Len(values) - 1)))

\* the values are taken in the order of the list
pct_unsorted(values, p) ==
    IF values = <<>> THEN NaN
    ELSE LET values_sorted == values
             n == Len(values_sorted)
             idx == <<p[1] * (n - 1), p[2]>>
             lo == idx[1] \div idx[2]
             hi == IF idx[1] % idx[2] = 0 THEN lo ELSE lo + 1
             frac == <<idx[1] - lo * idx[2], idx[2]>>
         IN  IF n = 1 THEN Float(values_sorted[1])
             ELSE IF lo = hi THEN Float(values_sorted[lo + 1])
             ELSE <<values_sorted[lo + 1] * (frac[2] - frac[1])
                        + values_sorted[hi + 1] * frac[1],
                    frac[2]>>

\* lines 10-22: _pct(values, p), p given as <<numerator, denominator>>;
\* a Python list is indexed from 0 and a sequence from 1
pct(values, p) ==
    IF values = <<>> THEN NaN
    ELSE LET values_sorted == sorted(values)
             n == Len(values_sorted)
             idx == <<p[1] * (n - 1), p[2]>>
             lo == idx[1] \div idx[2]
             hi == IF idx[1] % idx[2] = 0 THEN lo ELSE lo + 1
             frac == <<idx[1] - lo * idx[2], idx[2]>>
         IN  IF n = 1 THEN Float(values_sorted[1])
             ELSE IF lo = hi THEN Float(values_sorted[lo + 1])
             ELSE <<values_sorted[lo + 1] * (frac[2] - frac[1])
                        + values_sorted[hi + 1] * frac[1],
                    frac[2]>>

\* line 209: sum(durs)
RECURSIVE Sum(_)
Sum(durs) == IF durs = <<>> THEN 0 ELSE Head(durs) + Sum(Tail(durs))

\* line 219: max(durs) of a list that is not empty
RECURSIVE Max(_)
Max(durs) ==
    IF Len(durs) = 1 THEN durs[1]
    ELSE LET m == Max(Tail(durs))
         IN  IF Head(durs) > m THEN Head(durs) ELSE m

\* the latest sample in place of the largest
RowFor_last(interval_name, durs) ==
    LET total == Sum(durs)
    IN  [total |-> total,
         interval_name |-> interval_name,
         count |-> Len(durs),
         avg |-> IF durs # <<>> THEN <<total, Len(durs)>> ELSE NaN,
         p50 |-> pct(durs, P50),
         p95 |-> pct(durs, P95),
         max |-> IF durs # <<>> THEN durs[Len(durs)] ELSE 0]

\* lines 209-220: the row of one name
RowFor(interval_name, durs) ==
    LET total == Sum(durs)
    IN  [total |-> total,
         interval_name |-> interval_name,
         count |-> Len(durs),
         avg |-> IF durs # <<>> THEN <<total, Len(durs)>> ELSE NaN,
         p50 |-> pct(durs, P50),
         p95 |-> pct(durs, P95),
         max |-> IF durs # <<>> THEN Max(durs) ELSE 0]

\* line 208: durations_by_name.items() yields the names in the order in
\* which they were first inserted; the dict of this model keeps no order,
\* so every order of its keys is one the loop may have produced
Orders(S) ==
    {o \in [1..Cardinality(S) -> S] :
        \A i, j \in 1..Cardinality(S) : i # j => o[i] # o[j]}

\* lines 207-220: rows, one per item
RowsIn(items, d) == [i \in 1..Len(items) |-> RowFor(items[i], d[items[i]])]

RECURSIVE InsertDesc(_, _)
InsertDesc(r, s) ==
    IF s = <<>> THEN <<r>>
    ELSE IF r.total > Head(s).total THEN <<r>> \o s
    ELSE <<Head(s)>> \o InsertDesc(r, Tail(s))

\* the order of the items is kept
SortRows_kept(rows) == rows

\* line 222: rows.sort(reverse=True, key=lambda r: r[0]); the sort is
\* stable, rows of equal total keep their order
RECURSIVE SortRows(_)
SortRows(rows) ==
    IF rows = <<>> THEN <<>>
    ELSE InsertDesc(rows[Len(rows)],
                    SortRows(SubSeq(rows, 1, Len(rows) - 1)))

\* line 232: rows[: args.top]; a negative top counts from the end
Slice(rows, top) ==
    IF top >= 0
    THEN SubSeq(rows, 1, IF top < Len(rows) THEN top ELSE Len(rows))
    ELSE SubSeq(rows, 1, IF Len(rows) + top > 0 THEN Len(rows) + top ELSE 0)

\* lines 206-237: the counters and the rows of the report, return 0
Report ==
    /\ pc = "loop"
    /\ pc' = "done"
    /\ \E items \in Orders(DOMAIN durations_by_name) :
          LET rows == SortRows(RowsIn(items, durations_by_name))
          IN  report' = [matched_intervals |-> matched,
                         open_intervals_remaining |->
                             Remaining(open_intervals),
                         unmatched_end_events |-> unmatched_ends,
                         rows |-> rows,
                         printed |-> Slice(rows, args.top)]
    /\ exit_code' = Some(0)
    /\ UNCHANGED <<args, tables, counters, locals, branch, elem, stderr, call>>

\* the one path at which there is a file
TracePath == "trace.xml"

\* the loop is entered whether the file is there or not
OpenStream_entered ==
    /\ pc = "start"
    /\ pc' = "loop"
    /\ UNCHANGED output
    /\ UNCHANGED <<args, tables, counters, locals, branch, elem, report, call,
                   stream>>

\* lines 76-80: the iterator is made, or the file is not there
OpenStream ==
    /\ pc = "start"
    /\ IF args.xml = TracePath
       THEN /\ pc' = "loop"
            /\ UNCHANGED output
       ELSE /\ pc' = "exit"
            /\ stderr' = Append(stderr, <<"error: file not found: ", args.xml>>)
            /\ exit_code' = Some(2)
    /\ UNCHANGED <<args, tables, counters, locals, branch, elem, report, call,
                   stream>>

----------------------------------------------------------------------------
(* The strings of the bounded inputs *)

S_engine_sim == <<"e", "n", "g", "i", "n", "e", "-", "s", "i", "m">>

S_Engine_Sim == <<"E", "n", "g", "i", "n", "e", "-", "S", "i", "m">>

S_perf == <<"p", "e", "r", "f">>

S_gpu == <<"g", "p", "u">>

S_Load == <<"L", "o", "a", "d">>

S_Load2 == <<"L", "o", "a", "d", "2">>

S_t1 == <<"t", "1">>

S_t2 == <<"t", "2">>

S_0xA == <<"0", "x", "A">>

S_0xB == <<"0", "x", "B">>

S_Begin == <<"B", "e", "g", "i", "n">>

S_End == <<"E", "n", "d">>

S_BEGIN == <<"B", "E", "G", "I", "N">>

S_Bend == <<"B", "e", "n", "d">>

S_Event == <<"E", "v", "e", "n", "t">>

S_BeginEnd == <<"B", "e", "g", "i", "n", "E", "n", "d">>

S_1000 == <<"1", "0", "0", "0">>

S_5000 == <<"5", "0", "0", "0">>

S_0 == <<"0">>

S_1 == <<"1">>

S_2 == <<"2">>

S_abc == <<"a", "b", "c">>

S_pad2 == <<" ", "2", " ">>

----------------------------------------------------------------------------
(* Bounded inputs: the rows of an os-signpost table *)

\* a field child carrying an inline label
Field(tag, fmt) == Node(tag, None, None, Some(fmt), None, <<>>)

\* <event-time>t</event-time>
TimeField(tag, t) == Node(tag, None, None, None, Some(t), <<>>)

\* the children of a row up to its timestamp: thread, kind, tags, name, id
RowFields(kind, nm, sub, cat, thr, sid) ==
    <<Node("thread", Some(thr), None, None, None, <<>>),
      Field("event-type", kind),
      Field("subsystem", sub),
      Field("category", cat),
      Field("signpost-name", nm),
      Field("os-signpost-identifier", sid)>>

RowOf(children) == Node("row", None, None, None, None, children)

\* a complete row with one timestamp
MkRow(kind, nm, thr, sid, t) ==
    RowOf(<<TimeField("event-time", t)>>
          \o RowFields(kind, nm, S_engine_sim, S_perf, thr, sid))

\* a row without the children whose tag is in `tags`
Without(row, tags) ==
    RowOf(SelectSeq(row.children, LAMBDA c : c.tag \notin tags))

\* begin and end rows that pass the filter: two names and two times on one
\* key, a second correlation id on the same thread, and a second thread
PlainRows ==
    {MkRow(S_Begin, S_Load, S_t1, S_0xA, S_1),
     MkRow(S_Begin, S_Load2, S_t1, S_0xA, S_2),
     MkRow(S_End, S_Load, S_t1, S_0xA, S_1),
     MkRow(S_End, S_Load, S_t1, S_0xA, S_2),
     MkRow(S_End, S_Load2, S_t1, S_0xA, S_2),
     MkRow(S_Begin, S_Load, S_t1, S_0xB, S_1),
     MkRow(S_End, S_Load, S_t1, S_0xB, S_1),
     MkRow(S_Begin, S_Load, S_t2, S_0xA, S_1)}

\* rows whose kind label needs the case-insensitive substring test
KindRows ==
    {MkRow(k, S_Load, S_t1, S_0xA, S_2) :
        k \in {S_BEGIN, S_Bend, S_Event, S_BeginEnd}}

\* rows the filter of lines 166-172 has to judge
FilterRows ==
    LET base == MkRow(S_End, S_Load, S_t1, S_0xA, S_2)
    IN  {RowOf(<<TimeField("event-time", S_2)>>
               \o RowFields(S_End, S_Load, S_Engine_Sim, S_perf, S_t1, S_0xA)),
         RowOf(<<TimeField("event-time", S_2)>>
               \o RowFields(S_End, S_Load, S_engine_sim, S_gpu, S_t1, S_0xA)),
         Without(base, {"subsystem"}),
         Without(base, {"event-time"}),
         Without(base, {"event-type"}),
         Without(base, {"signpost-name"}),
         Without(base, {"thread"}),
         Without(base, {"os-signpost-identifier"}),
         MkRow(S_End, S_Load, S_t1, S_0xA, S_0),
         MkRow(S_Begin, S_Load, S_t1, S_0xA, S_0),
         MkRow(S_End, S_Load, S_t1, S_0xA, S_abc)}

\* begin rows with two temporal children
TimeRows ==
    {RowOf(<<TimeField("event-time", p[1]), TimeField("sample-time", p[2])>>
           \o RowFields(S_Begin, S_Load, S_engine_sim, S_perf, S_t1, S_0xA)) :
        p \in {<<S_1, S_2>>, <<S_2, S_abc>>, <<S_abc, S_1>>, <<S_1, <<>>>>,
               <<S_1, S_pad2>>}}

\* rows the extraction and the filter have to judge, a row whose kind
\* refers to an id no table holds, and plain rows of one key
OddRows ==
    KindRows \cup FilterRows \cup TimeRows
    \cup {RowOf(Without(MkRow(S_End, S_Load, S_t1, S_0xA, S_2),
                        {"event-type"}).children
                \o <<Node("event-type", None, Some(S_1), None, None, <<>>)>>)}
    \cup {MkRow(k, S_Load, S_t1, S_0xA, t) :
            k \in {S_Begin, S_End}, t \in {S_1, S_2}}

\* the two rows of the first scenario, and what else a table may hold
ScenarioRows ==
    {MkRow(S_Begin, S_Load, S_t1, S_0xA, S_1000),
     MkRow(S_End, S_Load, S_t1, S_0xA, S_5000),
     MkRow(S_End, S_Load2, S_t1, S_0xB, S_2),
     MkRow(S_Begin, S_Load, S_t2, S_0xA, S_1),
     Node("event-type", Some(<<"1">>), None, Some(S_Begin), None, <<>>),
     Node("schema", None, None, None, None,
          <<Node("col", None, None, None, Some(S_abc), <<>>)>>),
     Node("event-type", Some(S_1), None, Some(S_End), None, <<>>),
     Node("event-type", Some(S_1), None, Some(<<>>), None, <<>>),
     Node("event-type", Some(S_1), None, None, None, <<>>),
     Node("event-type", Some(<<>>), None, Some(S_End), None, <<>>),
     Node("signpost-name", Some(S_1), None, Some(S_Load), None, <<>>),
     Node("subsystem", Some(S_1), None, Some(S_engine_sim), None, <<>>),
     Node("category", Some(S_1), None, Some(S_perf), None, <<>>),
     Node("thread", Some(S_1), None, Some(S_t1), None, <<>>),
     RowOf(<<Node("event-type", Some(S_2), None, Some(S_Begin), None, <<>>),
             Node("thread", Some(S_1), None, Some(S_t2), None, <<>>)>>)}

\* all sequences over S of length at most n
SeqsUpTo(S, n) == UNION {[1..k -> S] : k \in 0..n}

----------------------------------------------------------------------------
(* Bounds *)

MaxRows == 4

MaxOddRows == 2

MaxDocLen == 2

----------------------------------------------------------------------------
(* The pass *)

\* lines 55-58: the defaults of the command line
DefaultArgs ==
    [xml |-> TracePath, subsystem |-> S_engine_sim, category |-> S_perf,
     top |-> 20]

\* lines 62-73: the state of main before the stream is opened
InitMain ==
    /\ event_type_fmt = EmptyDict
    /\ signpost_name_fmt = EmptyDict
    /\ subsystem_fmt = EmptyDict
    /\ category_fmt = EmptyDict
    /\ thread_fmt = EmptyDict
    /\ open_intervals = EmptyDict
    /\ durations_by_name = EmptyDict
    /\ unmatched_ends = 0
    /\ matched = 0
    /\ time_ns = None
    /\ time_fmt = None
    /\ event_kind = None
    /\ name = None
    /\ subsystem = None
    /\ category = None
    /\ thread_id = None
    /\ signpost_id = None
    /\ branch = "start"
    /\ elem = Node("", None, None, None, None, <<>>)
    /\ report = None
    /\ exit_code = None
    /\ stderr = <<>>
    /\ tree = <<>>
    /\ pos = <<1, 0>>

Init ==
    /\ InitMain
    /\ args \in {DefaultArgs, [DefaultArgs EXCEPT !.xml = "nope.xml"]}
    /\ pc = "start"
    /\ call = None
    /\ doc \in SeqsUpTo(ScenarioRows, MaxDocLen)

\* the iterator yields a node that is not a row at its end tag: a child of
\* the item under way, or the item itself; the loop body releases it
NextNode ==
    /\ pos[1] <= Len(doc)
    /\ LET item == doc[pos[1]]
       IN  IF pos[2] < Len(item.children)
           THEN /\ HandleNode(item.children[pos[2] + 1])
                /\ tree' = Append(tree, Clear(item.children[pos[2] + 1]))
                /\ pos' = <<pos[1], pos[2] + 1>>
           ELSE /\ HandleNode([item EXCEPT !.children = tree])
                /\ tree' = <<>>
                /\ pos' = <<pos[1] + 1, 0>>
    /\ UNCHANGED doc

\* the iterator yields a row at its end tag, after all its children
NextRowNode ==
    /\ pos[1] <= Len(doc)
    /\ pos[2] = Len(doc[pos[1]].children)
    /\ HandleRow([doc[pos[1]] EXCEPT !.children = tree])
    /\ tree' = <<>>
    /\ pos' = <<pos[1] + 1, 0>>
    /\ UNCHANGED doc

\* the iterator is exhausted
StreamEnd ==
    /\ pos[1] > Len(doc)
    /\ Report
    /\ UNCHANGED stream

Next == OpenStream \/ NextNode \/ NextRowNode \/ StreamEnd

Spec == Init /\ [][Next]_vars

----------------------------------------------------------------------------
(* The loop body applied to bounded sequences of rows whose fields carry   *)
(* their content when the row is handled                                   *)

\* lines 116-204 on the next row of doc
ApplyRow ==
    /\ pos[1] <= Len(doc)
    /\ HandleRow(doc[pos[1]])
    /\ pos' = <<pos[1] + 1, 0>>
    /\ UNCHANGED <<doc, tree>>

NextApply == ApplyRow \/ StreamEnd

\* the correlator on begin and end rows of several keys
InitCorr ==
    /\ InitMain
    /\ args = DefaultArgs
    /\ pc = "loop"
    /\ call = None
    /\ doc \in SeqsUpTo(PlainRows, MaxRows)

SpecCorr == InitCorr /\ [][NextApply]_vars

\* extraction and filter on rows of every shape
InitRow ==
    /\ InitMain
    /\ args = DefaultArgs
    /\ pc = "loop"
    /\ call = None
    /\ doc \in SeqsUpTo(OddRows, MaxOddRows)

SpecRow == InitRow /\ [][NextApply]_vars

----------------------------------------------------------------------------
(* The loop body applied to definition nodes and to rows whose fields      *)
(* refer to them                                                           *)

S_padEnd == <<" ", "E", "n", "d", " ">>

\* <tag id=".." fmt=".."/>
Def(tag, id, fmt) == Node(tag, Some(id), None, Some(fmt), None, <<>>)

\* definitions of the id 1 in four tables, two of them in the same table
DefNodes ==
    {Def("event-type", S_1, S_Begin),
     Def("event-type", S_1, S_End),
     Def("signpost-name", S_1, S_Load2),
     Def("subsystem", S_1, S_engine_sim),
     Def("category", S_1, S_perf)}

\* the row with the child of that tag replaced
With(row, child) ==
    RowOf([i \in 1..Len(row.children) |->
              IF row.children[i].tag = child.tag THEN child
              ELSE row.children[i]])

\* rows with one field that is not a plain inline label: a reference, a
\* label next to a reference, a text next to a reference, a padded text, a
\* text next to an empty reference, nothing at all
RefRows ==
    LET b == MkRow(S_Begin, S_Load, S_t1, S_0xA, S_1)
        e == MkRow(S_End, S_Load, S_t1, S_0xA, S_2)
    IN  {With(b, Node("event-type", None, Some(S_1), None, None, <<>>)),
         With(e, Node("event-type", None, Some(S_1), Some(S_End), None, <<>>)),
         With(e, Node("event-type", None, Some(S_1), None, Some(S_End), <<>>)),
         With(e, Node("event-type", None, None, None, Some(S_padEnd), <<>>)),
         With(e, Node("event-type", None, Some(<<>>), None, Some(S_End), <<>>)),
         With(e, Node("event-type", None, None, None, None, <<>>)),
         With(b, Node("signpost-name", None, Some(S_1), None, None, <<>>)),
         With(b, Node("subsystem", None, Some(S_1), None, None, <<>>)),
         With(e, Node("category", None, Some(S_1), None, None, <<>>))}

MaxItems == 3

\* lines 82-114 on the next item of doc, a node outside any row
ApplyNode ==
    /\ pos[1] <= Len(doc)
    /\ HandleNode(doc[pos[1]])
    /\ pos' = <<pos[1] + 1, 0>>
    /\ UNCHANGED <<doc, tree>>

NextResolve == ApplyNode \/ ApplyRow \/ StreamEnd

InitResolve ==
    /\ InitMain
    /\ args = DefaultArgs
    /\ pc = "loop"
    /\ call = None
    /\ doc \in SeqsUpTo(DefNodes \cup RefRows, MaxItems)

SpecResolve == InitResolve /\ [][NextResolve]_vars

----------------------------------------------------------------------------
(* The loop body applied to rows whose thread and correlation id come in   *)
(* every form                                                              *)

S_pad0xA == <<" ", "0", "x", "A", " ">>

\* a begin with thread id t1 and inline correlation id 0xA, and ends whose
\* thread is a reference, a reference next to another id, another id or
\* nothing, and whose correlation id is a padded text, a reference, or an
\* inline value next to a text; and a label for the thread id t1
KeyRows ==
    LET b == MkRow(S_Begin, S_Load, S_t1, S_0xA, S_1)
        e == MkRow(S_End, S_Load, S_t1, S_0xA, S_2)
        sid == "os-signpost-identifier"
    IN  {b,
         With(With(e, Node("thread", None, Some(S_t1), None, None, <<>>)),
              Node(sid, None, None, None, Some(S_pad0xA), <<>>)),
         With(With(e, Node("thread", Some(S_t2), Some(S_t1), None, None, <<>>)),
              Node(sid, None, Some(S_0xA), None, None, <<>>)),
         With(e, Node("thread", Some(S_t2), None, None, None, <<>>)),
         With(e, Node(sid, None, None, Some(S_0xB), Some(S_0xA), <<>>)),
         With(e, Node("thread", None, None, None, None, <<>>)),
         With(b, Node(sid, None, None, None, None, <<>>)),
         Def("thread", S_t1, S_t2)}

MaxKeyRows == 3

InitKey ==
    /\ InitMain
    /\ args = DefaultArgs
    /\ pc = "loop"
    /\ call = None
    /\ doc \in SeqsUpTo(KeyRows, MaxKeyRows)

SpecKey == InitKey /\ [][NextResolve]_vars

----------------------------------------------------------------------------
(* The report after bounded sequences of intervals of three names, under   *)
(* several values of --top                                                 *)

ReportNames == {S_Load, S_Load2, S_abc}

\* a begin at 1 and its end at t
Interval(n, t) ==
    <<MkRow(S_Begin, n, S_t1, S_0xA, S_1), MkRow(S_End, n, S_t1, S_0xA, t)>>

\* intervals of 0 ns and of 1 ns
Intervals == {Interval(n, t) : n \in ReportNames, t \in {S_1, S_2}}

RECURSIVE Concat(_)
Concat(q) == IF q = <<>> THEN <<>> ELSE Head(q) \o Concat(Tail(q))

\* values of --top: the default, small ones, zero and a negative one
Tops == {-1, 0, 1, 2, 20}

MaxIntervals == 3

InitReport ==
    /\ InitMain
    /\ args \in {[DefaultArgs EXCEPT !.top = n] : n \in Tops}
    /\ pc = "loop"
    /\ call = None
    /\ doc \in {Concat(q) : q \in SeqsUpTo(Intervals, MaxIntervals)}

SpecReport == InitReport /\ [][NextApply]_vars

----------------------------------------------------------------------------
(* _pct applied to bounded lists of samples                                *)

Samples == {10, 20, 30, 40}

\* p as <<numerator, denominator>>: 0, 1/3, 0.50, 0.95 and 1
Fractions == {<<0, 1>>, <<1, 3>>, P50, P95, <<1, 1>>}

MaxSamples == 4

\* lines 10-22: one call of _pct
CallPct ==
    /\ pc = "pct"
    /\ call.result = None
    /\ call' = [call EXCEPT !.result = Some(pct(call.values, call.p))]
    /\ UNCHANGED <<args, tables, counters, locals, branch, elem, report,
                   output, stream, pc>>

InitPct ==
    /\ InitMain
    /\ args = DefaultArgs
    /\ pc = "pct"
    /\ doc = <<>>
    /\ \E values \in SeqsUpTo(Samples, MaxSamples) : \E p \in Fractions :
          call = [values |-> values, p |-> p, result |-> None]

SpecPct == InitPct /\ [][CallPct]_vars

----------------------------------------------------------------------------
(* Reading the rows of doc, for the properties                             *)

\* the child of a row with the given tag
RowChild(row, tag) ==
    CHOOSE c \in {row.children[i] : i \in 1..Len(row.children)} : c.tag = tag

IsBeginRow(row) == RowChild(row, "event-type").fmt = Some(S_Begin)

IsEndRow(row) == RowChild(row, "event-type").fmt = Some(S_End)

RowKey(row) ==
    <<Val(RowChild(row, "thread").id),
      Val(RowChild(row, "os-signpost-identifier").fmt)>>

RowTime(row) == Val(ParseInt(Val(RowChild(row, "event-time").text)))

RowName(row) == Val(RowChild(row, "signpost-name").fmt)

\* the last of the first n rows of doc that carries the key, 0 if none
LastOn(key, n) ==
    LET I == {i \in 1..n : RowKey(doc[i]) = key}
    IN  IF I = {} THEN 0 ELSE CHOOSE i \in I : \A j \in I : j <= i

\* the key is OPEN after the first n rows: its last record is a begin
OpenAfter(key, n) == LastOn(key, n) # 0 /\ IsBeginRow(doc[LastOn(key, n)])

\* the step handles the row doc[pos[1]]
Applying == pc = "loop" /\ pos[1] <= Len(doc) /\ pos'[1] = pos[1] + 1

Row == doc[pos[1]]

\* the samples of a name, empty when the name has none
SamplesOf(d, n) == IF n \in DOMAIN d THEN d[n] ELSE <<>>

AllNames == DOMAIN durations_by_name \cup DOMAIN durations_by_name'

\* exactly one sample dt is appended to the list of n, nothing else changes
AppendedTo(n, dt) ==
    /\ n \in DOMAIN durations_by_name'
    /\ durations_by_name'[n] = Append(SamplesOf(durations_by_name, n), dt)
    /\ \A m \in AllNames \ {n} :
          /\ m \in DOMAIN durations_by_name
          /\ m \in DOMAIN durations_by_name'
          /\ durations_by_name'[m] = durations_by_name[m]

\* the step handles an end row whose key is OPEN
EndOnOpen ==
    Applying /\ IsEndRow(Row) /\ RowKey(Row) \in DOMAIN open_intervals

\* end time minus the start time of the OPEN entry
Dt == RowTime(Row) - open_intervals[RowKey(Row)][1]

----------------------------------------------------------------------------
(* C1 *)

Scenario1 ==
    <<MkRow(S_Begin, S_Load, S_t1, S_0xA, S_1000),
      MkRow(S_End, S_Load, S_t1, S_0xA, S_5000)>>

\* C1: the pass over the stream Begin(Load, t1, 0xA, 1000), End(Load, t1,
\* 0xA, 5000) finishes with matched=1, residual-open=0, unmatchedEnds=0 and
\* exactly one sample, 4000 ns, under the name Load.
C1_ScenarioOne ==
    (pc = "done" /\ doc = Scenario1) =>
        /\ report.matched_intervals = 1
        /\ report.open_intervals_remaining = 0
        /\ report.unmatched_end_events = 0
        /\ durations_by_name = (S_Load :> <<4000>>)

----------------------------------------------------------------------------
(* C2 *)

\* C2: an end for a key that is OPEN with end time - start time >= 0 removes
\* the key's entry, appends exactly one sample end - start to one name's
\* list, adds exactly 1 to matched and leaves unmatchedEnds unchanged.
C2_MatchedEnd ==
    [][(EndOnOpen /\ Dt >= 0) =>
          /\ RowKey(Row) \notin DOMAIN open_intervals'
          /\ \E n \in DOMAIN durations_by_name' : AppendedTo(n, Dt)
          /\ matched' = matched + 1
          /\ unmatched_ends' = unmatched_ends]_vars

\* a second match has been appended behind an earlier sample of its name
C2_Witness ==
    /\ pos[1] > 1
    /\ IsEndRow(doc[pos[1] - 1])
    /\ matched = 2
    /\ RowKey(doc[pos[1] - 1]) \notin DOMAIN open_intervals
    /\ \E n \in DOMAIN durations_by_name : Len(durations_by_name[n]) = 2

----------------------------------------------------------------------------
(* C3 *)

SamplesNonNegative ==
    \A n \in DOMAIN durations_by_name :
        \A i \in 1..Len(durations_by_name[n]) : durations_by_name[n][i] >= 0

\* C3: every recorded sample is >= 0, and an end whose time is smaller than
\* the start time of the OPEN entry of its key appends no sample and leaves
\* matched and unmatchedEnds unchanged while the entry is still removed.
C3_NonNegative ==
    /\ []SamplesNonNegative
    /\ [][(EndOnOpen /\ Dt < 0) =>
             /\ durations_by_name' = durations_by_name
             /\ matched' = matched
             /\ unmatched_ends' = unmatched_ends
             /\ open_intervals' = DictDel(open_intervals, RowKey(Row))]_vars

\* after a begin at time 2 and an end at time 1 on the same key
C3_Witness ==
    /\ pos[1] = 3
    /\ IsBeginRow(doc[1]) /\ RowTime(doc[1]) = 2
    /\ IsEndRow(doc[2]) /\ RowTime(doc[2]) = 1
    /\ RowKey(doc[1]) = RowKey(doc[2])
    /\ matched = 0 /\ unmatched_ends = 0
    /\ open_intervals = EmptyDict

----------------------------------------------------------------------------
(* C4 *)

\* the begin record that opened the interval the end row doc[n + 1] closes
OpenerOf(n) == doc[LastOn(RowKey(doc[n + 1]), n)]

----------------------------------------------------------------------------
(* C5 *)

\* the step handles a begin row whose key is already OPEN
BeginOnOpen ==
    Applying /\ IsBeginRow(Row) /\ RowKey(Row) \in DOMAIN open_intervals

\* Begin(Load, 1), Begin(Load2, 2), End(2) on one key
DoubleBegin ==
    /\ Len(doc) >= 3
    /\ doc[1] = MkRow(S_Begin, S_Load, S_t1, S_0xA, S_1)
    /\ doc[2] = MkRow(S_Begin, S_Load2, S_t1, S_0xA, S_2)
    /\ IsEndRow(doc[3]) /\ RowKey(doc[3]) = RowKey(doc[1])
    /\ RowTime(doc[3]) = 2

----------------------------------------------------------------------------
(* C6 *)

\* the entries of all keys but k are the same before and after the step
OthersUnchanged(k) ==
    \A o \in (DOMAIN open_intervals \cup DOMAIN open_intervals') \ {k} :
        /\ o \in DOMAIN open_intervals
        /\ o \in DOMAIN open_intervals'
        /\ open_intervals'[o] = open_intervals[o]

\* C6: records on distinct keys never cross-match: a begin or end on key K
\* leaves the entry of every other key unchanged, an end on K matches only
\* when K itself was opened, and the sample it records is its time minus the
\* time of the most recent begin on K.
C6_KeyIsolation ==
    [][Applying =>
          /\ OthersUnchanged(RowKey(Row))
          /\ IsEndRow(Row) =>
                IF OpenAfter(RowKey(Row), pos[1] - 1)
                THEN LET dt == RowTime(Row) - RowTime(OpenerOf(pos[1] - 1))
                     IN  /\ dt >= 0 =>
                               /\ matched' = matched + 1
                               /\ \E n \in DOMAIN durations_by_name' :
                                     AppendedTo(n, dt)
                         /\ dt < 0 =>
                               /\ matched' = matched
                               /\ durations_by_name' = durations_by_name
                ELSE /\ matched' = matched
                     /\ durations_by_name' = durations_by_name
                     /\ open_intervals' = open_intervals]_vars

\* an end on (t1, 0xB) or (t2, 0xA) arrived while only (t1, 0xA) was open:
\* it matched nothing and the entry of (t1, 0xA) is still there
C6_Witness ==
    /\ pos[1] = 3
    /\ IsBeginRow(doc[1]) /\ RowKey(doc[1]) = <<S_t1, S_0xA>>
    /\ IsEndRow(doc[2]) /\ RowKey(doc[2]) # <<S_t1, S_0xA>>
    /\ matched = 0
    /\ DOMAIN open_intervals = {<<S_t1, S_0xA>>}

----------------------------------------------------------------------------
(* C7 *)

----------------------------------------------------------------------------
(* C8 *)

AllKeys == {RowKey(doc[i]) : i \in 1..Len(doc)}

EndRows == {i \in 1..Len(doc) : IsEndRow(doc[i])}

RECURSIVE TotalSamples(_, _)
TotalSamples(d, names) ==
    IF names = {} THEN 0
    ELSE LET n == CHOOSE x \in names : TRUE
         IN  Len(d[n]) + TotalSamples(d, names \ {n})

----------------------------------------------------------------------------
(* C9 *)

EndBranches == {"unmatched_end", "matched_end", "negative_end"}

\* the resolved tags equal the configured ones and the five fields are there
Acceptable ==
    /\ subsystem = Some(args.subsystem)
    /\ category = Some(args.category)
    /\ time_ns # None
    /\ event_kind \notin {None, Some(<<>>)}
    /\ name \notin {None, Some(<<>>)}
    /\ thread_id \notin {None, Some(<<>>)}
    /\ signpost_id \notin {None, Some(<<>>)}

KindHas(sub) == Contains(Lower(Val(event_kind)), sub)

\* C9: a record reaches the correlator as a begin-candidate (end-candidate)
\* exactly when its resolved subsystem and category equal the configured
\* ones, timestamp, kind, name, thread key and correlation key are present,
\* and its kind, compared case-insensitively, contains "begin" but not "end"
\* ("end" but not "begin"); every other record is dropped.
C9_Filter ==
    [][Applying =>
          /\ branch' = "begin" <=>
                (Acceptable' /\ KindHas(BEGIN)' /\ ~KindHas(END)')
          /\ branch' \in EndBranches <=>
                (Acceptable' /\ KindHas(END)' /\ ~KindHas(BEGIN)')
          /\ branch' \notin EndBranches \cup {"begin"} =>
                UNCHANGED counters]_vars

\* a begin with timestamp 0 was accepted, then matched by an end whose kind
\* label is "Bend"
C9_Witness ==
    /\ pos[1] = 3
    /\ doc[1] = MkRow(S_Begin, S_Load, S_t1, S_0xA, S_0)
    /\ event_kind = Some(S_Bend)
    /\ branch = "matched_end"
    /\ durations_by_name = (S_Load :> <<2>>)

----------------------------------------------------------------------------
(* C10 *)

Temporal(row) ==
    SelectSeq(row.children, LAMBDA c : c.tag \in {"event-time", "sample-time"})

TemporalWithText(row) ==
    SelectSeq(Temporal(row), LAMBDA c : TextOf(c.text) # <<>>)

----------------------------------------------------------------------------
(* C11 *)

\* the label of a field node under a table: the inline label, else the
\* label the table has for the reference, else the trimmed text
Label(c, table) ==
    IF c.fmt # None /\ c.fmt # Some(<<>>) THEN c.fmt
    ELSE IF c.ref # None /\ c.ref # Some(<<>>)
    THEN IF Val(c.ref) \in DOMAIN table THEN Some(table[Val(c.ref)]) ELSE None
    ELSE IF c.text # None /\ Strip(Val(c.text)) # <<>>
    THEN Some(Strip(Val(c.text)))
    ELSE None

\* the step handles a row of doc
ApplyingRow == Applying /\ Row.tag = "row"

\* C11: each of the four resolved fields of a row gets the inline label of
\* its node if that is non-empty, otherwise the label registered under the
\* node's reference id in the table of the field's own kind or absent if
\* there is none, otherwise the node's trimmed text if non-empty, otherwise
\* absent.
C11_ResolveInline ==
    [][ApplyingRow =>
          /\ event_kind' = Label(RowChild(Row, "event-type"), event_type_fmt)
          /\ name' = Label(RowChild(Row, "signpost-name"), signpost_name_fmt)
          /\ subsystem' = Label(RowChild(Row, "subsystem"), subsystem_fmt)
          /\ category' = Label(RowChild(Row, "category"), category_fmt)]_vars

\* a kind resolved through the table of kinds, while the table of names
\* holds another label under the same id
C11_Witness ==
    /\ elem.tag = "row"
    /\ RowChild(elem, "event-type").fmt = None
    /\ RowChild(elem, "event-type").ref = Some(S_1)
    /\ event_kind = Some(S_Begin)
    /\ signpost_name_fmt = (S_1 :> S_Load2)
    /\ branch = "begin"

----------------------------------------------------------------------------
(* C12 *)

\* the nodes of an item in the order of their end tags
NodesOf(item) == item.children \o <<item>>

RECURSIVE Flat(_)
Flat(items) ==
    IF items = <<>> THEN <<>> ELSE NodesOf(Head(items)) \o Flat(Tail(items))

\* the nodes the iterator has yielded so far, as they stand in doc
Delivered ==
    Flat(SubSeq(doc, 1, pos[1] - 1))
    \o (IF pos[1] <= Len(doc) THEN SubSeq(doc[pos[1]].children, 1, pos[2])
        ELSE <<>>)

DefKinds == {"event-type", "signpost-name", "subsystem", "category", "thread"}

TableOf(tag) ==
    CASE tag = "event-type" -> event_type_fmt
      [] tag = "signpost-name" -> signpost_name_fmt
      [] tag = "subsystem" -> subsystem_fmt
      [] tag = "category" -> category_fmt
      [] tag = "thread" -> thread_fmt

\* a definition node of that kind for that identifier with a label
Defines(n, tag, id) ==
    /\ n.tag = tag
    /\ n.id = Some(id)
    /\ n.fmt # None
    /\ n.fmt # Some(<<>>)

\* the label of the latest definition among the nodes yielded so far
LatestDef(tag, id) ==
    LET I == {i \in 1..Len(Delivered) : Defines(Delivered[i], tag, id)}
    IN  IF I = {} THEN None
        ELSE Delivered[CHOOSE i \in I : \A j \in I : j <= i].fmt

\* the identifiers that occur: carried by a node, or held by a table
Ids ==
    {Val(Delivered[i].id) :
        i \in {j \in 1..Len(Delivered) : Truthy(Delivered[j].id)}}
    \cup UNION {DOMAIN TableOf(tag) : tag \in DefKinds}

\* the tables hold the latest labelled definition of each identifier
TablesAreLatest ==
    \A tag \in DefKinds : \A id \in Ids :
        DictGet(TableOf(tag), id) = LatestDef(tag, id)

\* the node the step is about to yield
Yielded == elem'

\* C12: after any sequence of nodes each of the five tables maps an
\* identifier to the label of the latest definition node of the table's kind
\* that carried the identifier with a non-empty label; a node with an empty
\* or missing label leaves every table unchanged, and a definition node of
\* one kind changes no table of another kind.
C12_LastWriteWins ==
    /\ []TablesAreLatest
    /\ [][(pc = "loop" /\ pc' = "loop") =>
            /\ ~Truthy(Yielded.fmt) => UNCHANGED tables
            /\ \A tag \in DefKinds :
                  Yielded.tag # tag => TableOf(tag)' = TableOf(tag)]_vars

\* the id 1 was defined as Begin and then as End
C12_Witness ==
    /\ Len(doc) = 2
    /\ doc[1] = Node("event-type", Some(S_1), None, Some(S_Begin), None, <<>>)
    /\ doc[2] = Node("event-type", Some(S_1), None, Some(S_End), None, <<>>)
    /\ event_type_fmt = (S_1 :> S_End)
    /\ signpost_name_fmt = EmptyDict
    /\ pc = "done"

----------------------------------------------------------------------------
(* C13 *)

\* the field of the row at hand has no inline label and refers to an
\* identifier its table does not hold now
Unresolved(tag) ==
    LET c == RowChild(Row, tag)
    IN  /\ ~Truthy(c.fmt)
        /\ Truthy(c.ref)
        /\ Val(c.ref) \notin DOMAIN TableOf(tag)

ForwardRow ==
    <<With(MkRow(S_Begin, S_Load, S_t1, S_0xA, S_1),
           Node("event-type", None, Some(S_1), None, None, <<>>)),
      Def("event-type", S_1, S_Begin)>>

\* C13: a row with a kind, name, subsystem or category field that has no
\* inline label and refers to an identifier not registered in its table when
\* the row is handled gets that field absent and is dropped by the filter,
\* with every counter, open interval and sample unchanged; every item is
\* handled once, in stream order, and a node that is not a row (a later
\* definition among them) changes no counter, open interval or sample.
C13_NoSecondPass ==
    [][/\ (ApplyingRow /\ Unresolved("event-type")) => event_kind' = None
       /\ (ApplyingRow /\ Unresolved("signpost-name")) => name' = None
       /\ (ApplyingRow /\ Unresolved("subsystem")) => subsystem' = None
       /\ (ApplyingRow /\ Unresolved("category")) => category' = None
       /\ (ApplyingRow /\ \E tag \in DefKinds \ {"thread"} : Unresolved(tag))
             => /\ branch' \in {"drop_filter", "drop_missing"}
                /\ UNCHANGED counters
       /\ (Applying /\ Row.tag # "row") => UNCHANGED counters
       /\ pos'[1] \in {pos[1], pos[1] + 1}]_vars

\* the kind of a begin row refers to the id 1, which is defined right after
\* the row: at the end of the stream nothing is open
C13_Witness ==
    /\ doc = ForwardRow
    /\ pc = "done"
    /\ event_type_fmt = (S_1 :> S_Begin)
    /\ open_intervals = EmptyDict
    /\ report.open_intervals_remaining = 0

----------------------------------------------------------------------------
(* C14 *)

\* the thread key the claim selects: the reference, else the id
ThreadKey(c) == IF c.ref # None /\ c.ref # Some(<<>>) THEN c.ref ELSE c.id

\* the correlation key the claim selects: the inline value, else the
\* trimmed text, else the reference
CorrKey(c) ==
    IF c.fmt # None /\ c.fmt # Some(<<>>) THEN c.fmt
    ELSE IF c.text # None /\ Strip(Val(c.text)) # <<>>
    THEN Some(Strip(Val(c.text)))
    ELSE c.ref

\* the pair of raw strings selected from the row at hand
SelectedKey ==
    <<Val(ThreadKey(RowChild(Row, "thread"))),
      Val(CorrKey(RowChild(Row, "os-signpost-identifier")))>>

\* C14: the correlation key of a row is the identifier node's inline value
\* if non-empty, else its trimmed text if non-empty, else its reference id;
\* the thread key is the thread node's reference id if present, else its id
\* attribute; no table is consulted, a begin opens the pair of strings so
\* selected and an end is matched exactly when its pair is open.
C14_RawKeys ==
    [][ApplyingRow =>
          /\ thread_id' = ThreadKey(RowChild(Row, "thread"))
          /\ signpost_id' = CorrKey(RowChild(Row, "os-signpost-identifier"))
          /\ branch' = "begin" =>
                /\ SelectedKey \in DOMAIN open_intervals'
                /\ DOMAIN open_intervals' = DOMAIN open_intervals \cup {SelectedKey}
          /\ branch' \in {"matched_end", "negative_end"} =>
                SelectedKey \in DOMAIN open_intervals
          /\ branch' = "unmatched_end" =>
                SelectedKey \notin DOMAIN open_intervals]_vars

\* a begin whose thread carries id t1 is closed by an end whose thread
\* carries ref t1 and whose correlation id is a padded text, while the
\* table of threads has a label for t1
C14_Witness ==
    /\ elem.tag = "row"
    /\ RowChild(elem, "thread").ref = Some(S_t1)
    /\ RowChild(elem, "thread").id = None
    /\ RowChild(elem, "os-signpost-identifier").text = Some(S_pad0xA)
    /\ thread_fmt = (S_t1 :> S_t2)
    /\ branch = "matched_end"
    /\ matched = 1

----------------------------------------------------------------------------
(* C15 *)

\* how often v occurs in the list s
Count(s, v) == Cardinality({i \in 1..Len(s) : s[i] = v})

\* the samples in ascending order
Ascending(values) ==
    CHOOSE s \in [1..Len(values) -> {values[i] : i \in 1..Len(values)}] :
        /\ \A v \in Samples : Count(s, v) = Count(values, v)
        /\ \A i \in 1..(Len(values) - 1) : s[i] <= s[i + 1]

\* two ratios with the same value
SameRatio(a, b) == a[2] # 0 /\ b[2] # 0 /\ a[1] * b[2] = b[1] * a[2]

\* floor and ceiling of p * (n - 1), and p * (n - 1) - floor as a count of
\* p[2]-ths
FloorIdx(n, p) ==
    CHOOSE k \in 0..(n - 1) :
        k * p[2] <= p[1] * (n - 1) /\ p[1] * (n - 1) < (k + 1) * p[2]

CeilIdx(n, p) ==
    CHOOSE k \in 0..(n - 1) :
        (k - 1) * p[2] < p[1] * (n - 1) /\ p[1] * (n - 1) <= k * p[2]

FracOf(n, p) == p[1] * (n - 1) - FloorIdx(n, p) * p[2]

\* the percentile the claim gives, for a list that is not empty
Percentile(values, p) ==
    LET s == Ascending(values)
        n == Len(values)
        lo == FloorIdx(n, p)
        hi == CeilIdx(n, p)
    IN  IF n = 1 THEN <<values[1], 1>>
        ELSE IF lo = hi THEN <<s[lo + 1], 1>>
        ELSE <<s[lo + 1] * (p[2] - FracOf(n, p)) + s[hi + 1] * FracOf(n, p),
               p[2]>>

\* the list holds 10, 20, 30 and 40 once each, in some order
IsTenToForty ==
    Len(call.values) = 4 /\ \A v \in Samples : Count(call.values, v) = 1

\* C15: for a non-empty list and p in [0,1], _pct gives the single sample
\* if n = 1, and otherwise, on the samples sorted ascending with
\* idx = p*(n-1), lo = floor(idx), hi = ceil(idx), frac = idx - lo, gives
\* sorted[lo] if lo = hi and sorted[lo]*(1-frac) + sorted[hi]*frac if not;
\* 10, 20, 30, 40 in any order gives 25 at 0.5, 10 at 0 and 40 at 1.
C15_Percentile ==
    (call.values # <<>> /\ call.result # None) =>
        /\ SameRatio(Val(call.result), Percentile(call.values, call.p))
        /\ (IsTenToForty /\ call.p = P50) =>
              SameRatio(Val(call.result), <<25, 1>>)
        /\ (IsTenToForty /\ call.p = <<0, 1>>) =>
              SameRatio(Val(call.result), <<10, 1>>)
        /\ (IsTenToForty /\ call.p = <<1, 1>>) =>
              SameRatio(Val(call.result), <<40, 1>>)

\* the median of 40, 10, 30, 20 was computed between two samples
C15_Witness ==
    /\ call.values = <<40, 10, 30, 20>>
    /\ call.p = P50
    /\ call.result = Some(<<50, 2>>)

----------------------------------------------------------------------------
(* C16 *)

\* the sum of the first k samples of a list
RECURSIVE SumTo(_, _)
SumTo(s, k) == IF k = 0 THEN 0 ELSE SumTo(s, k - 1) + s[k]

\* the indices of the rows of the report that carry the name n
RowsNamed(n) ==
    {i \in 1..Len(report.rows) : report.rows[i].interval_name = n}

\* the row is the summary of the list of samples
Summarises(row, s) ==
    /\ row.count = Len(s)
    /\ row.total = SumTo(s, Len(s))
    /\ SameRatio(row.avg, <<row.total, row.count>>)
    /\ \E i \in 1..Len(s) : row.max = s[i]
    /\ \A i \in 1..Len(s) : s[i] <= row.max

\* C16: no name is ever held in durations_by_name with an empty list of
\* samples; the report has exactly one row per name that has a sample and
\* no other row, and the row's count is the number of the name's samples,
\* its total their sum, its avg total/count and its max their maximum.
C16_Rows ==
    /\ \A n \in DOMAIN durations_by_name : durations_by_name[n] # <<>>
    /\ pc = "done" =>
          /\ \A n \in DOMAIN durations_by_name :
                /\ Cardinality(RowsNamed(n)) = 1
                /\ \A i \in RowsNamed(n) :
                      Summarises(report.rows[i], durations_by_name[n])
          /\ \A i \in 1..Len(report.rows) :
                report.rows[i].interval_name \in DOMAIN durations_by_name

\* the report of a pass that recorded 1 ns and then 0 ns under Load
C16_Witness ==
    /\ pc = "done"
    /\ durations_by_name = (S_Load :> <<1, 0>>)
    /\ Len(report.rows) = 1
    /\ report.rows[1].count = 2
    /\ report.rows[1].total = 1
    /\ report.rows[1].max = 1

----------------------------------------------------------------------------
(* C17 *)

\* the total of a name's samples
TotalOf(n) == SumTo(durations_by_name[n], Len(durations_by_name[n]))

\* the names of the rendered rows
Rendered ==
    {report.printed[i].interval_name : i \in 1..Len(report.printed)}

\* the rendered rows are in non-increasing order of total, one per name
RenderedInOrder ==
    /\ \A i \in 1..Len(report.printed) :
          /\ report.printed[i].interval_name \in DOMAIN durations_by_name
          /\ report.printed[i].total = TotalOf(report.printed[i].interval_name)
    /\ \A i, j \in 1..Len(report.printed) :
          /\ i < j => report.printed[i].total >= report.printed[j].total
          /\ i # j => report.printed[i].interval_name
                          # report.printed[j].interval_name

\* no name left out has a total greater than that of a rendered row
RenderedAreTop ==
    \A n \in DOMAIN durations_by_name \ Rendered :
        \A i \in 1..Len(report.printed) :
            TotalOf(n) <= report.printed[i].total

NamesWithSamples == Cardinality(DOMAIN durations_by_name)

Least(a, b) == IF a < b THEN a ELSE b

RenderedSlice ==
    pc = "done" =>
        /\ RenderedInOrder
        /\ RenderedAreTop
        /\ args.top >= 0 =>
              Len(report.printed) = Least(args.top, NamesWithSamples)
        /\ args.top < 0 =>
              Len(report.printed) =
                  IF NamesWithSamples + args.top > 0
                  THEN NamesWithSamples + args.top ELSE 0

\* three names and a limit of -1: two rows are rendered
NegativeTop ==
    /\ pc = "done"
    /\ args.top = -1
    /\ NamesWithSamples = 3
    /\ Len(report.printed) = 2

----------------------------------------------------------------------------
(* C18 *)

\* where the handling of a row ends when the row is dropped for a soft
\* reason: tags that do not match, a field missing or unresolved or a
\* timestamp that does not parse, a point kind, a kind both begin and end
DropBranches == {"drop_filter", "drop_missing", "drop_point", "drop_both"}

\* lines 69-73
StartState ==
    [open_intervals |-> EmptyDict, durations_by_name |-> EmptyDict,
     unmatched_ends |-> 0, matched |-> 0, branch |-> "start"]

\* row i of doc is dropped when the stream is handled in order
DroppedAt(i) == RunOver(StartState, SubSeq(doc, 1, i)).branch \in DropBranches

\* the first n rows of doc without those that are dropped
RECURSIVE Kept(_)
Kept(n) ==
    IF n = 0 THEN <<>>
    ELSE IF DroppedAt(n) THEN Kept(n - 1)
    ELSE Append(Kept(n - 1), doc[n])

CountersOf(S) ==
    <<S.open_intervals, S.durations_by_name, S.unmatched_ends, S.matched>>

\* the counters are those of the same stream without its dropped rows
AsIfNotThere ==
    counters = CountersOf(RunOver(StartState, Kept(pos[1] - 1)))

\* C18: a row dropped for a soft reason leaves the open intervals, every
\* sample list, matched and unmatched_ends unchanged, raises no error and
\* does not stop the pass; the rows after it are handled as they would have
\* been had the dropped row not been in the stream.
C18_SoftDrop ==
    /\ []AsIfNotThere
    /\ [][(ApplyingRow /\ branch' \in DropBranches) =>
            /\ UNCHANGED <<counters, tables, output, report>>
            /\ pc' = "loop"
            /\ pos' = <<pos[1] + 1, 0>>]_vars

\* a point event was dropped and the begin after it was opened
C18_Witness ==
    /\ pc = "done"
    /\ doc = <<MkRow(S_Event, S_Load, S_t1, S_0xA, S_2),
               MkRow(S_Begin, S_Load, S_t1, S_0xA, S_1)>>
    /\ DOMAIN open_intervals = {<<S_t1, S_0xA>>}
    /\ unmatched_ends = 0
    /\ exit_code = Some(0)

----------------------------------------------------------------------------
(* C19 *)

\* nothing of the stream has been handled
NothingHandled ==
    /\ pos = <<1, 0>>
    /\ branch = "start"
    /\ counters = CountersOf(StartState)
    /\ \A tag \in DefKinds : TableOf(tag) = EmptyDict

\* C19: when the input is not found main prints a diagnostic on stderr and
\* returns 2, having handled no node and rendered no report; when the
\* stream is opened and the pass reaches its end main renders the report
\* and returns 0.
C19_ExitCodes ==
    /\ [](args.xml # TracePath => pc \in {"start", "exit"})
    /\ [](pc = "exit" =>
            /\ args.xml # TracePath
            /\ exit_code = Some(2)
            /\ Len(stderr) = 1
            /\ NothingHandled)
    /\ [](pc = "done" =>
            /\ args.xml = TracePath
            /\ pos[1] = Len(doc) + 1
            /\ exit_code = Some(0)
            /\ stderr = <<>>
            /\ report.matched_intervals = matched)
    /\ [](pc \in {"start", "loop"} => exit_code = None /\ stderr = <<>>)
    /\ [][(pc \in {"start", "exit"} \/ pc' = "exit") =>
            report' = report]_vars

\* nope.xml is not there: a diagnostic and exit code 2
C19_Witness ==
    /\ pc = "exit"
    /\ args.xml = "nope.xml"
    /\ stderr = <<<<"error: file not found: ", "nope.xml">>>>
    /\ exit_code = Some(2)
    /\ Len(doc) > 0

----------------------------------------------------------------------------
(* C20 *)

\* the counts of the rows of the report, added up
RECURSIVE CountsTo(_)
CountsTo(k) == IF k = 0 THEN 0 ELSE CountsTo(k - 1) + report.rows[k].count

\* matched is the number of samples held under all names
MatchedIsSamples ==
    /\ matched = TotalSamples(durations_by_name, DOMAIN durations_by_name)
    /\ pc = "done" => CountsTo(Len(report.rows)) = matched

\* C20: matched equals the number of samples held across all names, so the
\* counts of the rows of the report add up to matched; matched and
\* unmatched_ends never decrease, and one row raises at most one of them,
\* by 1.
C20_Counters ==
    /\ []MatchedIsSamples
    /\ [][/\ matched' \in {matched, matched + 1}
           /\ unmatched_ends' \in {unmatched_ends, unmatched_ends + 1}
           /\ ~(matched' # matched /\ unmatched_ends' # unmatched_ends)
           /\ ~Applying => (matched' = matched
                            /\ unmatched_ends' = unmatched_ends)]_vars

\* two intervals of two names were matched: two rows in the report
C20_Witness ==
    /\ pc = "done"
    /\ matched = 2
    /\ unmatched_ends = 0
    /\ Len(report.rows) = 2
    /\ report.rows[1].count = 1

====
